---- MODULE Spec2Model ----
(***************************************************************************)
(* The search/tag engine of stdnet (stdnet/apps/searchengine/__init__.py)  *)
(* over a store of Word and WordItem records and units of work (sessions), *)
(* the attribute proxy of structured fields (stdnet/orm/structfields.py),  *)
(* the test harness (stdnet/test.py) and the failure kinds                 *)
(* (stdnet/exceptions.py). The record/session/query engine, the backend,   *)
(* the Word/WordItem record definitions and the word processors are        *)
(* collaborators; they are modelled from their contracts.                  *)
(***************************************************************************)
EXTENDS Integers, Sequences, FiniteSets, Bags, TLC

VARIABLES
    Word,       \* the durable Word records: a set of [id, tag]
    WordItem,   \* the durable postings: a bag of [word, model_type, object_id, count]
    pending,    \* per unit of work, the sequence of staged operations
    last,       \* the call made by the last step, with its arguments and result
    instances,  \* record instances that declare structured fields
    structures, \* the structure handles the factory has built, in order
    tests,      \* per test case: where its invocation is, its prefix and outcome
    issued,     \* the unique ids generated so far
    registry,   \* the record types registered, each with the prefix of its backend
    keys,       \* the keys held by the backend server
    calls       \* per caller of get_or_create: where its call is, its arguments

engineVars == <<Word, WordItem, pending>>
fieldVars == <<instances, structures>>
testVars == <<tests, issued, registry, keys>>
callVars == <<calls>>
vars == <<Word, WordItem, pending, last, instances, structures, tests, issued, registry, keys,
          calls>>

----------------------------------------------------------------------------
(* Bounds and universes *)

\* the most operations staged on all units of work together
MaxStaged == 2
\* the most postings, staged and durable together
MaxPostings == 2

None == "None"
WordIds == {"KT", "TK"}
ModelTypes == {"TypeX", "TypeY"}
ObjectIds == {1, 2}
Counts == {1, 2}
Sessions == {"s1", "s2"}

\* record instances handed to the engine: type, primary key, bound unit of work
Items == [model_type : ModelTypes, id : ObjectIds, session : Sessions \cup {None}]

----------------------------------------------------------------------------
(* The store and the unit of work *)

\* Word.objects.get(id = word): the stored Words with that id
WordGet(W, word) == {w \in W : w.id = word}

\* w.save(): persist a Word at once, under its id
WordSave(W, w) == {x \in W : x.id # w.id} \cup {w}

\* session.add(instance): stage the instance on the unit of work
SessionAdd(P, s, model, obj) ==
    [P EXCEPT ![s] = Append(@, [kind |-> model, obj |-> obj])]

\* session.delete(query): stage the deletion of what the query selects
SessionDelete(P, s, query) ==
    [P EXCEPT ![s] = Append(@, [kind |-> "delete", obj |-> query])]

\* one lookup of query.filter(...) on a posting: field = value, field__in = values
FilterHolds(f, p) ==
    CASE f.lookup = "model_type" -> p.model_type = f.value
      [] f.lookup = "model_type__in" -> p.model_type \in f.value
      [] f.lookup = "object_id" -> p.object_id = f.value
      [] f.lookup = "object_id__in" -> p.object_id \in f.value
      [] f.lookup = "word" -> p.word = f.value

\* a query is the sequence of its filters; it selects what passes them all
Selects(query, p) == \A i \in 1..Len(query) : FilterHolds(query[i], p)

Filter(lookup, value) == [lookup |-> lookup, value |-> value]

BagFilter(B, keep) == [p \in DOMAIN B \cap keep |-> B[p]]

StagedTotal(P) ==
    LET n[S \in SUBSET Sessions] ==
            IF S = {} THEN 0
            ELSE LET s == CHOOSE x \in S : TRUE
                 IN Len(P[s]) + n[S \ {s}]
    IN n[Sessions]

\* the postings staged on all units of work together
StagedPostings(P) ==
    LET n[S \in SUBSET Sessions] ==
            IF S = {} THEN 0
            ELSE LET s == CHOOSE x \in S : TRUE
                 IN Len(SelectSeq(P[s], LAMBDA op : op.kind = "WordItem")) + n[S \ {s}]
    IN n[Sessions]

\* what the backend does with a staged new record whose id is already stored
DuplicateCreate == {"overwrite", "keep"}

\* one staged operation made durable
ApplyOp(st, op, dup) ==
    CASE op.kind = "Word" ->
           IF dup = "keep" /\ WordGet(st.Word, op.obj.id) # {}
           THEN st
           ELSE [st EXCEPT !.Word = WordSave(@, op.obj)]
      [] op.kind = "WordItem" ->
           [st EXCEPT !.WordItem = @ (+) SetToBag({op.obj})]
      [] op.kind = "delete" ->
           [st EXCEPT !.WordItem = BagFilter(@, {p \in DOMAIN st.WordItem : ~Selects(op.obj, p)})]

RECURSIVE ApplyAll(_, _, _)
ApplyAll(st, ops, dup) ==
    IF ops = <<>> THEN st
    ELSE ApplyAll(ApplyOp(st, Head(ops), dup), Tail(ops), dup)

----------------------------------------------------------------------------
(* Text: a sequence of characters *)

MIN_WORD_LENGTH == 3

\* processors.PUNCTUATION_CHARS, the default splitters
PUNCTUATION_CHARS == {",", "!"}
\* processors.STOP_WORDS, the default stop words
STOP_WORDS == {"the"}

\* the characters the compiled regex matches; none: no regex
punctuation_regex == PUNCTUATION_CHARS

\* str.lower() on one character
LowerChar(c) == CASE c = "C" -> "c" [] c = "D" -> "d" [] c = "T" -> "t" [] OTHER -> c

RECURSIVE Join(_)
Join(cs) == IF cs = <<>> THEN "" ELSE Head(cs) \o Join(Tail(cs))

\* the characters str.split() splits at
Whitespace == {" ", "\t"}

\* str.split(): the maximal runs of non-blank characters, left to right
RECURSIVE StrSplit(_, _)
StrSplit(text, cur) ==
    LET done == IF cur = <<>> THEN <<>> ELSE <<cur>>
    IN IF text = <<>> THEN done
       ELSE IF Head(text) \in Whitespace THEN done \o StrSplit(Tail(text), <<>>)
       ELSE StrSplit(Tail(text), Append(cur, Head(text)))

\* __init__(min_word_length, splitters): the settings split_text reads; no
\* regex is compiled for an empty set of splitters
SearchEngine(min_word_length, splitters) ==
    [MIN_WORD_LENGTH |-> min_word_length,
     punctuation_regex |-> IF splitters # {} THEN splitters ELSE {}]

\* split_text that keeps the words longer than the minimum only
split_text_longer(self, text) ==
    LET subbed == IF self.punctuation_regex # {}
                  THEN [i \in 1..Len(text) |->
                          IF text[i] \in self.punctuation_regex THEN " " ELSE text[i]]
                  ELSE text
        toks == StrSplit(subbed, <<>>)
        mwl == self.MIN_WORD_LENGTH
        kept == SelectSeq(toks, LAMBDA word : Len(word) > mwl)
    IN [i \in 1..Len(kept) |-> Join([j \in 1..Len(kept[i]) |-> LowerChar(kept[i][j])])]

\* split_text of an engine with the given settings
split_text_of(self, text) ==
    LET subbed == IF self.punctuation_regex # {}
                  THEN [i \in 1..Len(text) |->
                          IF text[i] \in self.punctuation_regex THEN " " ELSE text[i]]
                  ELSE text
        toks == StrSplit(subbed, <<>>)
        mwl == self.MIN_WORD_LENGTH
        kept == SelectSeq(toks, LAMBDA word : Len(word) >= mwl)
    IN [i \in 1..Len(kept) |-> Join([j \in 1..Len(kept[i]) |-> LowerChar(kept[i][j])])]

\* split_text of the engine with the default settings
split_text(text) == split_text_of(SearchEngine(MIN_WORD_LENGTH, punctuation_regex), text)

\* processors.stopwords: drops the stop words
stopwords(ws) == SelectSeq(ws, LAMBDA w : w \notin STOP_WORDS)

\* processors.stemming_processor: each word to its stem
Stem(w) == CASE w = "cats" -> "cat" [] w = "dogs" -> "dog" [] OTHER -> w
stemming_processor(ws) == [i \in 1..Len(ws) |-> Stem(ws[i])]

\* processors.tolerant_metaphone_processor: each word to its phonetic code,
\* or to itself when it has none
Metaphone(w) == CASE w = "cat" -> "KT" [] w = "dog" -> "TK" [] w = "the" -> "0"
                  [] OTHER -> w
tolerant_metaphone_processor(ws) == [i \in 1..Len(ws) |-> Metaphone(ws[i])]

\* the word middleware __init__ registers, in order, with its for_search flag
Middleware(name, ws) ==
    CASE name = "stopwords" -> stopwords(ws)
      [] name = "stemming" -> stemming_processor(ws)
      [] name = "metaphone" -> tolerant_metaphone_processor(ws)

word_middleware ==
    << [middleware |-> "stopwords", for_search |-> FALSE],
       [middleware |-> "stemming", for_search |-> TRUE],
       [middleware |-> "metaphone", for_search |-> TRUE] >>

\* orm.SearchEngine.words_from_text: the list of cleaned words of a text
RECURSIVE RunMiddleware(_, _, _)
RunMiddleware(mws, ws, for_search) ==
    IF mws = <<>> THEN ws
    ELSE IF for_search /\ ~Head(mws).for_search
         THEN RunMiddleware(Tail(mws), ws, for_search)
         ELSE RunMiddleware(Tail(mws), Middleware(Head(mws).middleware, ws), for_search)

words_from_text(text, for_search) ==
    IF text = <<>> THEN <<>>
    ELSE RunMiddleware(word_middleware, split_text(text), for_search)

----------------------------------------------------------------------------
(* The engine: writes *)

\* the part of the state the engine's write operations read and change, and
\* the value the call returns
Frame(W, P, r) == [Word |-> W, pending |-> P, ret |-> r]

\* get_or_create that sets the tag flag of every Word it finds
get_or_create_promoting(st, word, tag, session) ==
    IF WordGet(st.Word, word) # {}
    THEN LET w == CHOOSE x \in WordGet(st.Word, word) : TRUE
         IN IF ~w.tag
            THEN LET u == [w EXCEPT !.tag = TRUE]
                 IN Frame(WordSave(st.Word, u), st.pending, u)
            ELSE Frame(st.Word, st.pending, w)
    ELSE LET w == [id |-> word, tag |-> tag]
         IN IF session # None
            THEN Frame(st.Word, SessionAdd(st.pending, session, "Word", w), w)
            ELSE Frame(WordSave(st.Word, w), st.pending, w)

\* get_or_create that stages the promoted Word on the unit of work it is given
get_or_create_staging(st, word, tag, session) ==
    IF WordGet(st.Word, word) # {}
    THEN LET w == CHOOSE x \in WordGet(st.Word, word) : TRUE
         IN IF tag /\ ~w.tag
            THEN LET u == [w EXCEPT !.tag = TRUE]
                 IN IF session # None
                    THEN Frame(st.Word, SessionAdd(st.pending, session, "Word", u), u)
                    ELSE Frame(WordSave(st.Word, u), st.pending, u)
            ELSE Frame(st.Word, st.pending, w)
    ELSE LET w == [id |-> word, tag |-> tag]
         IN IF session # None
            THEN Frame(st.Word, SessionAdd(st.pending, session, "Word", w), w)
            ELSE Frame(WordSave(st.Word, w), st.pending, w)

get_or_create(st, word, tag, session) ==
    IF WordGet(st.Word, word) # {}
    THEN LET w == CHOOSE x \in WordGet(st.Word, word) : TRUE
         IN IF tag /\ ~w.tag
            THEN LET u == [w EXCEPT !.tag = TRUE]
                 IN Frame(WordSave(st.Word, u), st.pending, u)
            ELSE Frame(st.Word, st.pending, w)
    ELSE LET w == [id |-> word, tag |-> tag]
         IN IF session # None
            THEN Frame(st.Word, SessionAdd(st.pending, session, "Word", w), w)
            ELSE Frame(WordSave(st.Word, w), st.pending, w)

\* the lookup step of get_or_create: Word.objects.get(id = word); the Words
\* found, none when it raises DoesNotExist
get_or_create_lookup(W, word) == WordGet(W, word)

\* the create-or-update step of get_or_create, on what the lookup step found;
\* dup: what the backend does when the new Word's id is stored by now
get_or_create_write(st, found, word, tag, session, dup) ==
    IF found # {}
    THEN LET w == CHOOSE x \in found : TRUE
         IN IF tag /\ ~w.tag
            THEN LET u == [w EXCEPT !.tag = TRUE]
                 IN Frame(WordSave(st.Word, u), st.pending, u)
            ELSE Frame(st.Word, st.pending, w)
    ELSE LET w == [id |-> word, tag |-> tag]
         IN IF session # None
            THEN Frame(st.Word, SessionAdd(st.pending, session, "Word", w), w)
            ELSE IF dup = "keep" /\ WordGet(st.Word, word) # {}
                 THEN Frame(st.Word, st.pending, w)
                 ELSE Frame(WordSave(st.Word, w), st.pending, w)

\* _link_item_and_word(item, word, count, tag): ret is the posting built
link_item_and_word(st, item, word, count, tag) ==
    LET g == get_or_create(st, word, tag, item.session)
    IN Frame(g.Word, g.pending,
             [word |-> g.ret.id, model_type |-> item.model_type,
              object_id |-> item.id, count |-> count])

\* words: the (word, count) pairs of the mapping, in the order iterated
RECURSIVE add_item(_, _, _, _)
add_item(st, item, words, session) ==
    IF words = <<>> THEN Frame(st.Word, st.pending, None)
    ELSE LET l == link_item_and_word(st, item, Head(words)[1], Head(words)[2], FALSE)
         IN add_item(Frame(l.Word, SessionAdd(l.pending, session, "WordItem", l.ret), None),
                     item, Tail(words), session)

\* the loop of add_tag over the cleaned words; ret is the list linked
\* the loop of add_tag that asks get_or_create for a plain Word
RECURSIVE add_tag_loop_plain(_, _, _, _)
add_tag_loop_plain(st, item, ws, linked) ==
    IF ws = <<>> THEN Frame(st.Word, st.pending, linked)
    ELSE LET ctag == get_or_create(st, Head(ws), FALSE, None)
             l == link_item_and_word(Frame(ctag.Word, ctag.pending, None), item,
                                     ctag.ret.id, 1, FALSE)
         IN add_tag_loop_plain(Frame(l.Word, l.pending, None), item, Tail(ws),
                               Append(linked, l.ret))

RECURSIVE add_tag_loop(_, _, _, _)
add_tag_loop(st, item, ws, linked) ==
    IF ws = <<>> THEN Frame(st.Word, st.pending, linked)
    ELSE LET ctag == get_or_create(st, Head(ws), TRUE, None)
             l == link_item_and_word(Frame(ctag.Word, ctag.pending, None), item,
                                     ctag.ret.id, 1, FALSE)
         IN add_tag_loop(Frame(l.Word, l.pending, None), item, Tail(ws),
                         Append(linked, l.ret))

\* add_tag that stages the postings it built on the item's unit of work
add_tag_staging(st, item, text) ==
    LET a == add_tag_loop(st, item, words_from_text(text, FALSE), <<>>)
    IN Frame(a.Word,
             [a.pending EXCEPT ![item.session] =
                 @ \o [i \in 1..Len(a.ret) |-> [kind |-> "WordItem", obj |-> a.ret[i]]]],
             a.ret)

add_tag(st, item, text) == add_tag_loop(st, item, words_from_text(text, FALSE), <<>>)

\* an optional argument: Absent (None), or Given(v)
Absent == <<>>
Given(v) == <<v>>

\* a record type given to remove_item in place of an instance
Class(T) == [class |-> T]
isclass(x) == "class" \in DOMAIN x

\* remove_item that forgets the ids it is given
remove_item_all_ids(st, item_or_model, ids, session) ==
    LET sess == IF session # None THEN session ELSE item_or_model.session
        wi == IF isclass(item_or_model)
              THEN <<Filter("model_type", item_or_model.class)>>
              ELSE <<Filter("model_type", item_or_model.model_type),
                     Filter("object_id", item_or_model.id)>>
    IN IF sess = None
       THEN Frame(st.Word, st.pending, "AttributeError")
       ELSE Frame(st.Word, SessionDelete(st.pending, sess, wi), None)

\* a class comes with a session: what the session attribute of a record type
\* itself holds is not the engine's
remove_item(st, item_or_model, ids, session) ==
    LET sess == IF session # None THEN session ELSE item_or_model.session
        wi == IF isclass(item_or_model)
              THEN <<Filter("model_type", item_or_model.class)>>
                   \o (IF ids # Absent
                       THEN <<Filter("object_id__in", ids[1])>> ELSE <<>>)
              ELSE <<Filter("model_type", item_or_model.model_type),
                     Filter("object_id", item_or_model.id)>>
    IN IF sess = None
       THEN Frame(st.Word, st.pending, "AttributeError")
       ELSE Frame(st.Word, SessionDelete(st.pending, sess, wi), None)

\* flush that empties the Words whatever full is
flush_words_too(st, full) == [Word |-> {}, WordItem |-> EmptyBag]

\* Manager.flush(): every record of the model removed at once
flush(st, full) ==
    LET items == EmptyBag
        words == IF full THEN {} ELSE st.Word
    IN [Word |-> words, WordItem |-> items]

----------------------------------------------------------------------------
(* The engine: reads *)

Range(f) == {f[i] : i \in DOMAIN f}

\* words(text, for_search): None (Absent) when the text has no cleaned word,
\* else the stored Words whose id is one of them
words(W, text, for_search) ==
    LET texts == words_from_text(text, for_search)
    IN IF texts # <<>>
       THEN Given({w \in W : w.id \in Range(texts)})
       ELSE Absent

\* a query over one record type: q.model, and q.ids, the ids of its records;
\* what search_model hands back: a query and how it was made, or the error
Result(kind, model, ids) == [kind |-> kind, model |-> model, ids |-> ids]

\* orm.intersect, orm.union over queries of ids
intersect(qs) == {x \in UNION qs : \A s \in qs : x \in s}
union(qs) == UNION qs

\* search_model that never narrows by more than one word
search_model_first_word(W, WI, q, text, lookup) ==
    LET ws == words(W, text, TRUE)
    IN IF ws = Absent THEN Result("Query", q.model, q.ids)
       ELSE IF ws[1] = {} THEN Result("EmptyQuery", q.model, {})
       ELSE LET w == CHOOSE x \in ws[1] : TRUE
            IN Result("intersect", q.model,
                      intersect({q.ids, {p.object_id : p \in
                          {x \in DOMAIN WI : Selects(<<Filter("model_type", q.model),
                                                       Filter("word", w.id)>>, x)}}}))

\* search_model that takes a text without words for a search without results
search_model_empty(W, WI, q, text, lookup) ==
    Result("EmptyQuery", q.model, {})

\* search_model that leaves the query as it is when no Word matches
search_model_unmatched_unnarrowed(W, WI, q, text, lookup) ==
    LET ws == words(W, text, TRUE)
    IN IF ws = Absent \/ ws[1] = {} THEN Result("Query", q.model, q.ids)
       ELSE Result("intersect", q.model,
                   intersect({q.ids} \cup
                             {{p.object_id : p \in {x \in DOMAIN WI :
                                    x.model_type = q.model /\ x.word = word.id}}
                                : word \in ws[1]}))

search_model(W, WI, q, text, lookup) ==
    LET ws == words(W, text, TRUE)
        query == <<Filter("model_type", q.model)>>
        \* query.filter(word = word).get_field('object_id')
        ids(word) == {p.object_id : p \in
                        {x \in DOMAIN WI :
                            Selects(Append(query, Filter("word", word.id)), x)}}
    IN IF ws = Absent THEN Result("Query", q.model, q.ids)
       ELSE IF ws[1] = {} THEN Result("EmptyQuery", q.model, {})
       ELSE LET qs == {ids(word) : word \in ws[1]}
            IN IF Cardinality(ws[1]) > 1
               THEN IF lookup = "in"
                    THEN Result("intersect", q.model, intersect({q.ids, intersect(qs)}))
                    ELSE IF lookup = "contains"
                    THEN Result("intersect", q.model, intersect({q.ids, union(qs)}))
                    \* raise valueError(...): the name valueError is not defined
                    ELSE Result("NameError", q.model, {})
               ELSE Result("intersect", q.model,
                           intersect({q.ids, ids(CHOOSE word \in ws[1] : TRUE)}))

\* wi.word: the stored Word a posting refers to, looked up by its id; there
\* is none to load when no Word of that id is stored
Related(W, wi) == WordGet(W, wi.word)

\* the loop of alltags over the postings selected, B[wi] postings alike at a
\* time; tags is the dictionary built so far, keyed by Word (by its id)
RECURSIVE alltags_loop(_, _, _, _)
alltags_loop(W, B, wis, tags) ==
    IF wis = {} THEN tags
    ELSE LET wi == CHOOSE p \in wis : TRUE
             word == CHOOSE w \in Related(W, wi) : TRUE
             tags1 == IF word.tag
                      THEN IF word.id \in DOMAIN tags
                           THEN [tags EXCEPT ![word.id] = @ + B[wi]]
                           ELSE tags @@ (word.id :> B[wi])
                      ELSE tags
         IN alltags_loop(W, B, wis \ {wi}, tags1)

alltags(W, WI, models) ==
    LET B == BagFilter(WI, {p \in DOMAIN WI : Selects(<<Filter("model_type__in", models)>>, p)})
    IN IF \E wi \in DOMAIN B : Related(W, wi) = {}
       THEN [kind |-> "ObjectNotFound"]
       ELSE [kind |-> "dict", tags |-> alltags_loop(W, B, DOMAIN B, <<>>)]

----------------------------------------------------------------------------
(* Structured fields: the attribute proxy *)

\* the most items buffered on one structure handle
MaxBuffer == 1

InstanceNames == {"a", "b"}
FieldNames == {"data", "tags"}
\* units of work: u1 and u2 on one backend, u3 on another
Units == {"u1", "u2", "u3"}
BackendOf(session) == IF session = "u3" THEN [prefix |-> "q."] ELSE [prefix |-> "p."]

\* values of the cache attribute: not set on the instance, a value that is
\* not a structure handle, the n-th handle built
NoAttr == [kind |-> "NoAttr", h |-> 0]
Raw == [kind |-> "raw", h |-> 0]
Handle(n) == [kind |-> "Structure", h |-> n]

\* the primary key of an instance that has none assigned
NoId == 0

\* no exception
NoError == [kind |-> "none", name |-> ""]

\* the text of a primary key
Str(id) == CASE id = 1 -> "1" [] id = 2 -> "2" [] OTHER -> "?"

\* backend.basekey(meta, 'obj', id, name): the backend's prefix, the record
\* type's name, and the arguments joined by ':'
basekey(backend, meta, marker, id, name) ==
    backend.prefix \o meta \o ":" \o marker \o ":" \o Str(id) \o ":" \o name

\* the structure factory: a new handle of that key for the instance, bound to
\* the instance's unit of work, with nothing buffered; origin keeps the unit
\* of work the handle was built through
factory(id, instance, name, session) ==
    [id |-> id, instance |-> instance, name |-> name, session |-> session,
     origin |-> session, cache |-> NoAttr, buffer |-> 0]

\* session.add(structure): the handle moves to the unit of work as it is
SessionAddStructure(S, h, session) == [S EXCEPT ![h].session = session]

\* structure.set_cache(value)
set_cache(S, h, value) == [S EXCEPT ![h].cache = value]

isStructure(v) == v.kind = "Structure"

Raise(st, kind, name) ==
    [instances |-> st.instances, structures |-> st.structures,
     ret |-> NoAttr, raised |-> [kind |-> kind, name |-> name]]

Return(I, S, r) == [instances |-> I, structures |-> S, ret |-> r, raised |-> NoError]

\* get_structure that leaves the field's name out of the key
get_structure_no_name(st, i, name) ==
    LET instance == st.instances[i]
        session == instance.session
    IN IF session = None THEN Raise(st, "AttributeError", "backend")
       ELSE LET id == basekey(BackendOf(session), instance.model_type, "obj",
                              instance.id, "")
            IN Return(st.instances,
                      Append(st.structures, factory(id, i, name, session)),
                      Handle(Len(st.structures) + 1))

get_structure(st, i, name) ==
    LET instance == st.instances[i]
        session == instance.session
    IN IF session = None THEN Raise(st, "AttributeError", "backend")
       ELSE LET id == basekey(BackendOf(session), instance.model_type, "obj",
                              instance.id, name)
            IN Return(st.instances,
                      Append(st.structures, factory(id, i, name, session)),
                      Handle(Len(st.structures) + 1))

\* __get__ without the test of the primary key
proxy_get_unchecked(st, i, name) ==
    LET g == get_structure(st, i, name)
    IN IF g.raised # NoError THEN g
       ELSE Return([g.instances EXCEPT ![i].cache[name] = g.ret], g.structures, g.ret)

\* __get__ that builds a new handle when the unit of work has changed
proxy_get_recreating(st, i, name) ==
    LET instance == st.instances[i]
        cache_val == instance.cache[name]
        g == get_structure(st, i, name)
    IN IF instance.id = NoId THEN Raise(st, "StructureFieldError", name)
       ELSE IF /\ isStructure(cache_val)
               /\ ~(st.structures[cache_val.h].session # instance.session
                     /\ instance.session # None)
            THEN Return(st.instances, st.structures, cache_val)
            ELSE IF g.raised # NoError THEN g
                 ELSE Return([g.instances EXCEPT ![i].cache[name] = g.ret],
                             g.structures, g.ret)

\* StructureFieldProxy.__get__(instance) of the field called name
proxy_get(st, i, name) ==
    LET instance == st.instances[i]
        cache_val == instance.cache[name]
    IN IF instance.id = NoId THEN Raise(st, "StructureFieldError", name)
       ELSE IF isStructure(cache_val)
            THEN IF st.structures[cache_val.h].session # instance.session
                    /\ instance.session # None
                 THEN Return(st.instances,
                             SessionAddStructure(st.structures, cache_val.h, instance.session),
                             cache_val)
                 ELSE Return(st.instances, st.structures, cache_val)
            ELSE LET g == get_structure(st, i, name)
                 IN IF g.raised # NoError THEN g
                    ELSE Return([g.instances EXCEPT ![i].cache[name] = g.ret],
                                IF cache_val # NoAttr
                                THEN set_cache(g.structures, g.ret.h, cache_val)
                                ELSE g.structures,
                                g.ret)

----------------------------------------------------------------------------
(* The failure kinds *)

\* the classes of stdnet/exceptions.py
Failures ==
    {"StdNetException", "SessionNotAvailable", "ModelNotAvailable",
     "ModelNotRegistered", "InvalidTransaction", "CommitException",
     "AlreadyRegistered", "ObjectNotValidated", "ImproperlyConfigured",
     "BadCacheDataStructure", "FieldError", "StructureFieldError",
     "FieldValueError", "QuerySetError", "ObjectNotFound"}

\* the base class each class statement names
Base(c) ==
    CASE c = "StdNetException" -> "Exception"
      [] c = "ModelNotRegistered" -> "SessionNotAvailable"
      [] c = "FieldValueError" -> "FieldError"
      [] c = "ObjectNotFound" -> "QuerySetError"
      [] OTHER -> "StdNetException"

\* issubclass(c, h)
RECURSIVE issubclass(_, _)
issubclass(c, h) ==
    \/ c = h
    \/ c # "Exception" /\ issubclass(Base(c), h)

\* try: raise c(...) / except h: whether the handler catches the failure
Caught(c, h) == issubclass(c, h)

----------------------------------------------------------------------------
(* The test harness *)

TestNames == {"A", "B"}
\* the ids gen_unique_id can give, as sequences of characters; it gives each
\* at most once
UniqueIds == {<<"a">>, <<"a", "b">>, <<"c">>}
\* what a test body writes: the rest of a key after the backend's prefix
KeyNames == {<<"X", "1">>, <<"Y", "1">>}
Outcomes == {"pass", "fail", "error"}

\* a test case that has not been invoked
Idle == [pc |-> "idle", prefix |-> <<>>, outcome |-> "", deferred |-> FALSE]

\* the glob pattern prefix + '*' matches the keys that start with prefix
Matches(prefix, key) ==
    Len(prefix) <= Len(key) /\ SubSeq(key, 1, Len(prefix)) = prefix

\* backend.flush(pattern = ...): the keys left
BackendFlush(K, prefix) == {k \in K : ~Matches(prefix, k)}

\* 'stdnet-test-' + gen_unique_id() + '.' without the closing '.'
prefix_of_open(uid) ==
    <<"s", "t", "d", "n", "e", "t", "-", "t", "e", "s", "t", "-">> \o uid

\* 'stdnet-test-' + gen_unique_id() + '.'
prefix_of(uid) ==
    <<"s", "t", "d", "n", "e", "t", "-", "t", "e", "s", "t", "-">> \o uid \o <<".">>

clear_all(K, prefix) == BackendFlush(K, prefix)

\* orm.register(model, backend) for every model of the test
register(R, models, prefix) ==
    {r \in R : r.model \notin models} \cup {[model |-> m, prefix |-> prefix] : m \in models}

\* orm.unregister()
unregister(R) == {}

\* _post_teardown: clear_all, then orm.unregister()
post_teardown(K, R, prefix) == [keys |-> clear_all(K, prefix), registry |-> unregister(R)]

\* __call__ that returns without the post-teardown when the body did not pass
call_skipping(pc, outcome) ==
    CASE pc \in {"idle", "returned"} -> "body"
      [] pc = "body" -> IF outcome = "pass" THEN "post_teardown" ELSE "returned"
      [] pc = "post_teardown" -> "returned"

\* __call__: where the invocation is after the step at pc is done; the body,
\* run by unittest, records its failure in the result and returns
call(pc, outcome) ==
    CASE pc \in {"idle", "returned"} -> "body"
      [] pc = "body" -> "post_teardown"
      [] pc = "post_teardown" -> "returned"

----------------------------------------------------------------------------
(* Calls *)

Here == Frame(Word, pending, None)

\* an instance not constructed yet
Blank ==
    [model_type |-> None, id |-> NoId, session |-> None, saved |-> FALSE,
     cache |-> [f \in FieldNames |-> NoAttr]]

\* the callers that run get_or_create side by side
Callers == {"c1", "c2"}
\* a caller that has not called
NoCall == [pc |-> "idle", word |-> "", tag |-> FALSE, session |-> None, found |-> {}]

Init ==
    /\ Word = {}
    /\ WordItem = EmptyBag
    /\ pending = [s \in Sessions |-> <<>>]
    /\ last = [op |-> "init"]
    /\ instances = [i \in InstanceNames |-> Blank]
    /\ structures = <<>>
    /\ tests = [t \in TestNames |-> Idle]
    /\ issued = {}
    /\ registry = {}
    /\ keys = {}
    /\ calls = [c \in Callers |-> NoCall]

\* which branch of get_or_create a call takes
Branch(W, word, tag, session) ==
    IF WordGet(W, word) # {}
    THEN IF tag /\ \E w \in WordGet(W, word) : ~w.tag THEN "promoted" ELSE "found"
    ELSE IF session # None THEN "staged" ELSE "saved"

GetOrCreate(ws, ss) ==
    \E word \in ws, tag \in BOOLEAN, session \in ss :
        LET g == get_or_create(Here, word, tag, session)
        IN /\ StagedTotal(g.pending) <= MaxStaged
           /\ Word' = g.Word
           /\ pending' = g.pending
           /\ last' = [op |-> "get_or_create", word |-> word, tag |-> tag,
                       session |-> session, ret |-> g.ret,
                       branch |-> Branch(Word, word, tag, session)]
           /\ UNCHANGED <<WordItem, fieldVars, testVars, callVars>>

\* a caller enters get_or_create and runs its lookup step
Lookup(cs, ws, ss) ==
    \E c \in cs, word \in ws, tag \in BOOLEAN, session \in ss :
        /\ calls[c].pc = "idle"
        /\ calls' = [calls EXCEPT ![c] = [pc |-> "looked", word |-> word, tag |-> tag,
                                          session |-> session,
                                          found |-> get_or_create_lookup(Word, word)]]
        /\ last' = [op |-> "lookup", caller |-> c]
        /\ UNCHANGED <<engineVars, fieldVars, testVars>>

\* a caller runs the create-or-update step of its call and returns
CreateOrUpdate(cs) ==
    \E c \in cs, dup \in DuplicateCreate :
        LET k == calls[c]
            g == get_or_create_write(Here, k.found, k.word, k.tag, k.session, dup)
        IN /\ k.pc = "looked"
           /\ StagedTotal(g.pending) <= MaxStaged
           /\ Word' = g.Word
           /\ pending' = g.pending
           /\ calls' = [calls EXCEPT ![c].pc = "done"]
           /\ last' = [op |-> "create_or_update", caller |-> c, dup |-> dup, ret |-> g.ret]
           /\ UNCHANGED <<WordItem, fieldVars, testVars>>

AddItem(is, wcs, ss) ==
    \E item \in is, wc \in wcs, session \in ss :
        LET a == add_item(Here, item, wc, session)
        IN /\ StagedTotal(a.pending) <= MaxStaged
           /\ BagCardinality(WordItem) + StagedPostings(a.pending) <= MaxPostings
           /\ Word' = a.Word
           /\ pending' = a.pending
           /\ last' = [op |-> "add_item", item |-> item, words |-> wc,
                       session |-> session]
           /\ UNCHANGED <<WordItem, fieldVars, testVars, callVars>>

AddTag(is, txts) ==
    \E item \in is, text \in txts :
        LET a == add_tag(Here, item, text)
        IN /\ StagedTotal(a.pending) <= MaxStaged
           /\ Word' = a.Word
           /\ pending' = a.pending
           /\ last' = [op |-> "add_tag", item |-> item, text |-> text, ret |-> a.ret,
                       was |-> {w \in Word : w.id \in Range(words_from_text(text, FALSE))},
                       again |-> /\ last.op = "add_tag"
                                 /\ last.item = item /\ last.text = text]
           /\ UNCHANGED <<WordItem, fieldVars, testVars, callVars>>

Commit(ss) ==
    \E s \in ss, dup \in DuplicateCreate :
        LET c == ApplyAll([Word |-> Word, WordItem |-> WordItem], pending[s], dup)
        IN /\ pending[s] # <<>>
           /\ Word' = c.Word
           /\ WordItem' = c.WordItem
           /\ pending' = [pending EXCEPT ![s] = <<>>]
           /\ last' = [op |-> "commit", session |-> s, dup |-> dup,
                       ops |-> pending[s], had |-> BagCardinality(WordItem)]
           /\ UNCHANGED <<fieldVars, testVars, callVars>>

RemoveItem(targets, idopts, ss) ==
    \E item_or_model \in targets, ids \in idopts, session \in ss :
        LET r == remove_item(Here, item_or_model, ids, session)
        IN /\ session = None => ~isclass(item_or_model)
           /\ ids # Absent => isclass(item_or_model)
           /\ StagedTotal(r.pending) <= MaxStaged
           /\ Word' = r.Word
           /\ pending' = r.pending
           /\ last' = [op |-> "remove_item", item_or_model |-> item_or_model,
                       ids |-> ids, session |-> session, ret |-> r.ret]
           /\ UNCHANGED <<WordItem, fieldVars, testVars, callVars>>

SearchModel(queries, txts, lookups) ==
    \E q \in queries, text \in txts, lookup \in lookups :
        /\ last' = [op |-> "search_model", q |-> q, text |-> text,
                    lookup |-> lookup,
                    ret |-> search_model(Word, WordItem, q, text, lookup)]
        /\ UNCHANGED <<engineVars, fieldVars, testVars, callVars>>

AllTags(modelsets) ==
    \E models \in modelsets :
        /\ last' = [op |-> "alltags", models |-> models,
                    ret |-> alltags(Word, WordItem, models)]
        /\ UNCHANGED <<engineVars, fieldVars, testVars, callVars>>

Flush ==
    \E full \in BOOLEAN :
        LET f == flush([Word |-> Word, WordItem |-> WordItem], full)
        IN /\ Word' = f.Word
           /\ WordItem' = f.WordItem
           /\ last' = [op |-> "flush", full |-> full,
                       had |-> BagCardinality(WordItem)]
           /\ UNCHANGED <<pending, fieldVars, testVars, callVars>>

HereFields == [instances |-> instances, structures |-> structures]

\* Model(...): an instance of a record type, with or without a primary key
\* given, its cache attribute for a field unset or loaded with a value
NewInstance(is, types, ids, slots) ==
    \E i \in is, T \in types, id \in ids, name \in FieldNames, slot \in slots :
        /\ instances[i] = Blank
        /\ instances' = [instances EXCEPT
                            ![i] = [Blank EXCEPT !.model_type = T, !.id = id,
                                                 !.cache[name] = slot]]
        /\ last' = [op |-> "new", instance |-> i]
        /\ UNCHANGED <<structures, engineVars, testVars, callVars>>

\* instance.save(): the instance has a primary key and a unit of work after it
SaveInstance(is, ids, ss) ==
    \E i \in is, id \in ids, s \in ss :
        /\ instances[i] # Blank /\ ~instances[i].saved
        /\ instances' = [instances EXCEPT
                            ![i].id = IF @ = NoId THEN id ELSE @,
                            ![i].session = IF @ = None THEN s ELSE @,
                            ![i].saved = TRUE]
        /\ last' = [op |-> "save", instance |-> i]
        /\ UNCHANGED <<structures, engineVars, testVars, callVars>>

\* session.add(instance): the instance is associated with another unit of work
Associate(is, ss) ==
    \E i \in is, s \in ss :
        /\ instances[i] # Blank /\ instances[i].session # s
        /\ instances' = [instances EXCEPT ![i].session = s]
        /\ last' = [op |-> "associate", instance |-> i, session |-> s]
        /\ UNCHANGED <<structures, engineVars, testVars, callVars>>

\* a write through a structure handle, buffered on the handle
Push ==
    \E h \in DOMAIN structures :
        /\ structures[h].buffer < MaxBuffer
        /\ structures' = [structures EXCEPT ![h].buffer = @ + 1]
        /\ last' = [op |-> "push", h |-> h]
        /\ UNCHANGED <<instances, engineVars, testVars, callVars>>

\* reading the attribute of a structured field on an instance
GetField(is, names) ==
    \E i \in is, name \in names :
        LET g == proxy_get(HereFields, i, name)
        IN /\ instances[i] # Blank
           /\ instances' = g.instances
           /\ structures' = g.structures
           /\ last' = [op |-> "get", instance |-> i, name |-> name,
                       ret |-> g.ret, raised |-> g.raised,
                       was |-> instances[i].cache[name],
                       from |-> IF isStructure(instances[i].cache[name])
                                THEN structures[instances[i].cache[name].h].session
                                ELSE None]
           /\ UNCHANGED <<engineVars, testVars, callVars>>

\* __call__ up to the test body: _pre_setup with a new prefix; clear_all runs
\* at once, or later as the callback of an asynchronous script_flush
PreSetup(ts) ==
    \E t \in ts, uid \in UniqueIds \ issued, async \in BOOLEAN :
        /\ tests[t].pc \in {"idle", "returned"}
        /\ issued' = issued \cup {uid}
        /\ tests' = [tests EXCEPT ![t] = [pc |-> call(tests[t].pc, ""),
                                          prefix |-> prefix_of(uid),
                                          outcome |-> "", deferred |-> async]]
        /\ keys' = IF async THEN keys ELSE clear_all(keys, prefix_of(uid))
        /\ last' = [op |-> "pre_setup", test |-> t, async |-> async]
        /\ UNCHANGED <<registry, engineVars, fieldVars, callVars>>

\* the callback of _pre_setup: clear_all with the prefix the test has by then
DeferredClear(ts) ==
    \E t \in ts :
        /\ tests[t].deferred
        /\ tests' = [tests EXCEPT ![t].deferred = FALSE]
        /\ keys' = clear_all(keys, tests[t].prefix)
        /\ last' = [op |-> "clear_all", test |-> t]
        /\ UNCHANGED <<issued, registry, engineVars, fieldVars, callVars>>

\* the test body calls register()
Register(ts, models) ==
    \E t \in ts :
        /\ tests[t].pc = "body"
        /\ registry' = register(registry, models, tests[t].prefix)
        /\ registry' # registry
        /\ last' = [op |-> "register", test |-> t]
        /\ UNCHANGED <<tests, issued, keys, engineVars, fieldVars, callVars>>

\* the test body writes a key through the test's backend
WriteKey(ts, names) ==
    \E t \in ts, name \in names :
        /\ tests[t].pc = "body"
        /\ tests[t].prefix \o name \notin keys
        /\ keys' = keys \cup {tests[t].prefix \o name}
        /\ last' = [op |-> "write", test |-> t, key |-> tests[t].prefix \o name]
        /\ UNCHANGED <<tests, issued, registry, engineVars, fieldVars, callVars>>

\* the test body ends: it passed, failed or ended in an error
EndBody(ts) ==
    \E t \in ts, outcome \in Outcomes :
        /\ tests[t].pc = "body"
        /\ tests' = [tests EXCEPT ![t].pc = call("body", outcome),
                                  ![t].outcome = outcome]
        /\ last' = [op |-> "body", test |-> t, outcome |-> outcome]
        /\ UNCHANGED <<issued, registry, keys, engineVars, fieldVars, callVars>>

\* __call__ after the test body: _post_teardown, then the invocation returns
PostTeardown(ts) ==
    \E t \in ts :
        LET p == post_teardown(keys, registry, tests[t].prefix)
        IN /\ tests[t].pc = "post_teardown"
           /\ keys' = p.keys
           /\ registry' = p.registry
           /\ tests' = [tests EXCEPT ![t].pc = call("post_teardown", tests[t].outcome)]
           /\ last' = [op |-> "post_teardown", test |-> t,
                       had |-> {k \in keys : Matches(tests[t].prefix, k)},
                       registered |-> registry]
           /\ UNCHANGED <<issued, engineVars, fieldVars, callVars>>

\* split_text on an engine built with a minimum word length and splitters;
\* one call per behaviour, on any of the inputs
SplitText(lengths, splitterss, texts) ==
    /\ last.op = "init"
    /\ \E mwl \in lengths, splitters \in splitterss, text \in texts :
          last' = [op |-> "split_text", min_word_length |-> mwl,
                   splitters |-> splitters, text |-> text,
                   ret |-> split_text_of(SearchEngine(mwl, splitters), text)]
    /\ UNCHANGED <<engineVars, fieldVars, testVars, callVars>>

\* a failure of a kind raised under a handler for a kind
TryExcept(raisedkinds, handlers) ==
    \E c \in raisedkinds, h \in handlers :
        /\ last' = [op |-> "handle", raised |-> c, handler |-> h,
                    caught |-> Caught(c, h)]
        /\ UNCHANGED <<engineVars, fieldVars, testVars, callVars>>

----------------------------------------------------------------------------
(* Indexing and tagging: get_or_create, add_item, add_tag and commits *)

\* one record, bound to no unit of work, to the one add_item is given, to another
IndexItems == {i \in Items : i.model_type = "TypeX" /\ i.id = 1}

IndexWordCounts ==
    { << <<"KT", 2>> >>, << <<"TK", 1>> >>,
      << <<"KT", 2>>, <<"TK", 1>> >>, << <<"TK", 1>>, <<"KT", 2>> >> }

\* "Cats", "the dog", "a"
TagTexts == { <<"C", "a", "t", "s">>,
              <<"t", "h", "e", " ", "d", "o", "g">>,
              <<"a">> }

NextIndex ==
    \/ GetOrCreate(WordIds, {None, "s2"})
    \/ AddItem(IndexItems, IndexWordCounts, {"s1"})
    \/ AddTag({i \in IndexItems : i.session = "s2"}, TagTexts)
    \/ Commit(Sessions)

SpecIndex == Init /\ [][NextIndex]_vars

----------------------------------------------------------------------------
(* Removing and flushing: add_item, remove_item, flush and commits *)

\* records of two types and two ids, bound to the unit of work s1 or to none
StoreItems ==
    {i \in Items : /\ i.session \in {"s1", None}
                   /\ (i.session = None \/ i.model_type = "TypeY") => i.id = 1}

StoreWordCounts == { << <<"KT", 1>> >> }

\* remove_item is given the record of TypeX and id 1, bound or not, or a type
RemoveTargets ==
    {i \in StoreItems : i.model_type = "TypeX" /\ i.id = 1} \cup {Class(T) : T \in ModelTypes}
RemoveIds == {Absent, Given({1})}

NextStore ==
    \/ GetOrCreate({"KT"}, {None})
    \/ AddItem({i \in StoreItems : i.session = "s1"}, StoreWordCounts, {"s1"})
    \/ RemoveItem(RemoveTargets, RemoveIds, {"s1", None})
    \/ Flush
    \/ Commit({"s1"})

SpecStore == Init /\ [][NextStore]_vars

----------------------------------------------------------------------------
(* Searching: add_item, commits and search_model *)

\* records of two types and two ids, bound to no unit of work or to s1
SearchItems ==
    {i \in Items : /\ i.session \in {None, "s1"}
                   /\ i.session = "s1" => (i.model_type = "TypeX" /\ i.id = 1)
                   /\ i.model_type = "TypeY" => i.id = 1}

\* queries over TypeX: all its records, one of them; over TypeY
Queries == {[model |-> "TypeX", ids |-> S] : S \in {{1, 2}, {2}}}
           \cup {[model |-> "TypeY", ids |-> {1, 2}]}

\* "", "a", "the", "cat", "cat,Dogs"
SearchTexts == { <<>>, <<"a">>, <<"t", "h", "e">>, <<"c", "a", "t">>,
                 <<"c", "a", "t", ",", "D", "o", "g", "s">> }

Lookups == {"in", "contains", "exact"}

NextSearch ==
    \/ AddItem(SearchItems, IndexWordCounts, {"s1"})
    \/ Commit({"s1"})
    \/ SearchModel(Queries, SearchTexts, Lookups)

SpecSearch == Init /\ [][NextSearch]_vars

----------------------------------------------------------------------------
(* Tag clouds: get_or_create, add_item, commits and alltags *)

\* records of two types and two ids bound to no unit of work, one bound to s2
TagItems ==
    {i \in Items : /\ i.session \in {None, "s2"}
                   /\ i.session = "s2" => (i.model_type = "TypeX" /\ i.id = 1)
                   /\ i.model_type = "TypeY" => i.id = 1}

NextTags ==
    \/ GetOrCreate(WordIds, {None})
    \/ AddItem(TagItems, IndexWordCounts, {"s1"})
    \/ Commit(Sessions)
    \/ AllTags(SUBSET ModelTypes \ {{}})

SpecTags == Init /\ [][NextTags]_vars

----------------------------------------------------------------------------
(* Structured fields: instances, units of work and reads of the attribute *)

NextFields ==
    \/ NewInstance(InstanceNames, {"TypeX"}, {NoId, 1}, {NoAttr, Raw})
    \/ SaveInstance(InstanceNames, {1}, {"u1"})
    \/ Associate(InstanceNames, {"u1", "u2"})
    \/ Push
    \/ GetField(InstanceNames, {"data"})

SpecFields == Init /\ [][NextFields]_vars

----------------------------------------------------------------------------
(* Remote keys: instance a of TypeX and key 1 on unit of work u1, instance b *)
(* of any type and key on u2, of the same backend, or on u3, of another     *)

NextKeys ==
    \/ NewInstance({"a"}, {"TypeX"}, {1}, {NoAttr})
    \/ NewInstance({"b"}, ModelTypes, ObjectIds, {NoAttr})
    \/ Associate({"a"}, {"u1"})
    \/ Associate({"b"}, {"u2", "u3"})
    \/ GetField({"a"}, FieldNames)
    \/ GetField({"b"}, {"data"})

SpecKeys == Init /\ [][NextKeys]_vars

----------------------------------------------------------------------------
(* Test runs: two test cases of the same record type, run side by side *)

NextTests ==
    \/ PreSetup(TestNames)
    \/ DeferredClear(TestNames)
    \/ Register(TestNames, {"TypeX"})
    \/ WriteKey(TestNames, KeyNames)
    \/ EndBody(TestNames)
    \/ PostTeardown(TestNames)

SpecTests == Init /\ [][NextTests]_vars

----------------------------------------------------------------------------
(* Tokenizing: every short text over a small alphabet, and the text of the *)
(* documented example, on engines of different settings                    *)

\* the longest text tokenized, apart from the example
MaxTextLen == 4

SplitAlphabet == {"a", "C", " ", "\t", "_", "-"}
\* "bla_pippo_ciao-moon"
ExampleText ==
    <<"b", "l", "a", "_", "p", "i", "p", "p", "o", "_",
      "c", "i", "a", "o", "-", "m", "o", "o", "n">>
SplitTexts ==
    UNION {[1..n -> SplitAlphabet] : n \in 0..MaxTextLen} \cup {ExampleText}

NextSplit == SplitText({2, MIN_WORD_LENGTH}, {{}, {"_", "-"}, {"-"}}, SplitTexts)

SpecSplit == Init /\ [][NextSplit]_vars

----------------------------------------------------------------------------
(* Failures and handlers: every kind raised under a handler for every kind *)

NextFailures == TryExcept(Failures, Failures \cup {"Exception"})

SpecFailures == Init /\ [][NextFailures]_vars

----------------------------------------------------------------------------
(* Claims on indexing and tagging *)

\* C1 (as claimed): once the stored Word with a given id has tag = true, it
\* still has tag = true after every step of get_or_create, add_item, add_tag
\* and of a commit of a unit of work (no flush is among the steps)
C1_TagNeverDemoted == [][\A w \in Word : w.tag => w \in Word']_vars

\* the postings staged on unit of work s, in the order staged
StagedItems(P, s) ==
    LET ops == SelectSeq(P[s], LAMBDA op : op.kind = "WordItem")
    IN [i \in 1..Len(ops) |-> ops[i].obj]

\* C2 (as claimed): add_item stages, on the unit of work it is given, exactly
\* one posting per word of the mapping (that word, the item's type and id, the
\* word's count), and itself writes nothing durable: the stored Words and
\* postings are the same after the call as before
C2_AddItemStagesOnly ==
    [][last'.op = "add_item" =>
        LET item == last'.item
            wc == last'.words
        IN /\ StagedItems(pending', last'.session)
                = StagedItems(pending, last'.session)
                  \o [i \in 1..Len(wc) |->
                        [word |-> wc[i][1], model_type |-> item.model_type,
                         object_id |-> item.id, count |-> wc[i][2]]]
           /\ \A s \in Sessions \ {last'.session} :
                 StagedItems(pending', s) = StagedItems(pending, s)
           /\ Word' = Word
           /\ WordItem' = WordItem]_vars

\* C6: a call get_or_create(w, tag = false) without a unit of work returns the
\* Word of id w, leaves exactly one stored Word of id w, with the tag flag it
\* had before (false if there was none), and changes nothing else; so does any
\* number of such calls in sequence
C6_GetOrCreatePlainIdempotent ==
    [][(last'.op = "get_or_create" /\ ~last'.tag /\ last'.session = None) =>
        LET w == last'.word
            old == WordGet(Word, w)
        IN /\ last'.ret.id = w
           /\ Cardinality(WordGet(Word', w)) = 1
           /\ WordGet(Word', w) = IF old # {} THEN old ELSE {[id |-> w, tag |-> FALSE]}
           /\ last'.ret \in WordGet(Word', w)
           /\ \A x \in WordIds \ {w} : WordGet(Word', x) = WordGet(Word, x)
           /\ pending' = pending]_vars

\* a plain call found the Word an earlier call left, still plain
C6_Witness ==
    /\ last.op = "get_or_create" /\ ~last.tag /\ last.session = None
    /\ last.branch = "found"
    /\ Word = {[id |-> last.word, tag |-> FALSE]}

\* C7: get_or_create(w, tag = true) on a stored Word w with tag = false stores
\* it with tag = true before it returns, with or without a unit of work: the
\* lookup of w right after the call gives tag = true, and nothing is staged
C7_PromotionPersistsAtOnce ==
    [][(/\ last'.op = "get_or_create" /\ last'.tag
        /\ [id |-> last'.word, tag |-> FALSE] \in Word) =>
        /\ WordGet(Word', last'.word) = {[id |-> last'.word, tag |-> TRUE]}
        /\ last'.ret = [id |-> last'.word, tag |-> TRUE]
        /\ pending' = pending]_vars

\* a promotion made by a call that was given a unit of work
C7_Witness ==
    /\ last.op = "get_or_create" /\ last.branch = "promoted"
    /\ last.session # None
    /\ [id |-> last.word, tag |-> TRUE] \in Word
    /\ pending[last.session] = <<>>

\* C11: after add_tag(item, text) every token of the text, normalized as for
\* indexing, is the id of one stored Word and that Word has tag = true, also
\* when it was stored with tag = false before; the list returned holds one
\* posting per token, in order, of the token's Word, the item's type and id,
\* and count 1
C11_AddTagMakesTagWords ==
    last.op = "add_tag" =>
        LET tokens == words_from_text(last.text, FALSE)
        IN /\ \A i \in 1..Len(tokens) :
                 {w \in Word : w.id = tokens[i]} = {[id |-> tokens[i], tag |-> TRUE]}
           /\ last.ret = [i \in 1..Len(tokens) |->
                            [word |-> tokens[i], model_type |-> last.item.model_type,
                             object_id |-> last.item.id, count |-> 1]]

\* an add_tag of one token whose Word was stored as a plain Word before and
\* is a tag after
C11_Witness ==
    /\ last.op = "add_tag"
    /\ Len(last.ret) = 1
    /\ \E w \in last.was : ~w.tag
    /\ \E w \in Word : w.tag /\ w \notin last.was

----------------------------------------------------------------------------
(* Claims on removing and flushing *)

Postings == [word : WordIds, model_type : ModelTypes, object_id : ObjectIds,
             count : Counts]

\* the scope of a remove_item call, as the claim gives it: a type, a type and
\* a set of ids, or the type and id of an instance
InScope(item_or_model, ids, p) ==
    IF isclass(item_or_model)
    THEN /\ p.model_type = item_or_model.class
         /\ ids # Absent => p.object_id \in ids[1]
    ELSE /\ p.model_type = item_or_model.model_type
         /\ p.object_id = item_or_model.id

OnlyDeletes(ops) == \A i \in 1..Len(ops) : ops[i].kind = "delete"

\* C8: remove_item stages, on the unit of work it is given or else on the
\* instance's own, one deletion that selects exactly the postings in its
\* scope (all of TypeX; those of TypeX with id in S; those of the instance's
\* type and id), and writes nothing itself; the commit of a unit of work that
\* holds such deletions removes exactly the stored postings they select and
\* leaves every other posting and every Word as it was
C8_RemoveItemDeletesItsScope ==
    [][/\ (last'.op = "remove_item" /\ last'.ret = None) =>
            LET sess == IF last'.session # None THEN last'.session
                        ELSE last'.item_or_model.session
                op == pending'[sess][Len(pending'[sess])]
            IN /\ pending' = [pending EXCEPT ![sess] = Append(@, op)]
               /\ op.kind = "delete"
               /\ \A p \in Postings :
                     Selects(op.obj, p) <=> InScope(last'.item_or_model, last'.ids, p)
               /\ Word' = Word
               /\ WordItem' = WordItem
       /\ (last'.op = "commit" /\ OnlyDeletes(last'.ops)) =>
            /\ Word' = Word
            /\ WordItem' = BagFilter(WordItem, {p \in DOMAIN WordItem :
                              \A i \in 1..Len(last'.ops) : ~Selects(last'.ops[i].obj, p)})
      ]_vars

\* a committed remove_item(TypeX, ids = S) removed one stored posting and left
\* the other
C8_Witness ==
    /\ last.op = "commit"
    /\ Len(last.ops) = 1
    /\ last.ops[1].kind = "delete"
    /\ Len(last.ops[1].obj) = 2
    /\ last.ops[1].obj[2].lookup = "object_id__in"
    /\ last.had = 2
    /\ BagCardinality(WordItem) = 1

\* C9: flush(full = false) removes every posting and leaves the Words, ids and
\* tag flags, as they were; flush(full = true) removes every posting and every
\* Word
C9_FlushPostingsAndWords ==
    [][last'.op = "flush" =>
        /\ WordItem' = EmptyBag
        /\ Word' = IF last'.full THEN {} ELSE Word
        /\ pending' = pending]_vars

\* a flush(full = false) of a store that held postings, a tag Word left
C9_Witness ==
    /\ last.op = "flush" /\ ~last.full
    /\ last.had > 0
    /\ WordItem = EmptyBag
    /\ \E w \in Word : w.tag

----------------------------------------------------------------------------
(* Claims on searching *)

\* the terms of a query text
Terms(text) == Range(words_from_text(text, TRUE))

\* the id set of a term: the object ids of the postings of the type that
\* carry the term's Word
TermIds(term, model) ==
    IF \E w \in Word : w.id = term
    THEN {p.object_id : p \in {x \in DOMAIN WordItem :
                                  x.word = term /\ x.model_type = model}}
    ELSE {}

StoredTerms(text) == {t \in Terms(text) : \E w \in Word : w.id = t}

IsQuery(ret) == ret.kind \in {"Query", "EmptyQuery", "intersect"}

\* C3 (as claimed): for a text of two terms, stored as Words or not,
\* search_model with lookup 'in' returns the records of q whose ids lie in the
\* intersection of the two terms' id sets, and with lookup 'contains' those
\* whose ids lie in their union
C3_InIntersectsContainsUnites ==
    (last.op = "search_model" /\ Cardinality(Terms(last.text)) = 2 =>
        LET q == last.q
            ts == Terms(last.text)
        IN /\ last.lookup = "in" =>
                /\ IsQuery(last.ret)
                /\ last.ret.ids = {x \in q.ids : \A t \in ts : x \in TermIds(t, q.model)}
           /\ last.lookup = "contains" =>
                /\ IsQuery(last.ret)
                /\ last.ret.ids = {x \in q.ids : \E t \in ts : x \in TermIds(t, q.model)})

\* C3 (amended): with lookup 'contains' it is the union, whether the terms
\* are stored Words or not; with lookup 'in' it is the intersection over the
\* terms that are stored Words: of both id sets when both terms are stored,
\* the one id set when one term is stored (the other term is dropped, it
\* does not empty the result), and no record when neither is
C3_InIntersectsStoredTerms ==
    (last.op = "search_model" /\ Cardinality(Terms(last.text)) = 2 =>
        LET q == last.q
            ts == Terms(last.text)
            stored == StoredTerms(last.text)
        IN /\ last.lookup = "in" =>
                /\ IsQuery(last.ret)
                /\ last.ret.ids = {x \in q.ids : /\ stored # {}
                                                 /\ \A t \in stored : x \in TermIds(t, q.model)}
           /\ last.lookup = "contains" =>
                /\ IsQuery(last.ret)
                /\ last.ret.ids = {x \in q.ids : \E t \in ts : x \in TermIds(t, q.model)})

\* a search 'in' for two stored terms whose id sets differ
C3_Witness ==
    /\ last.op = "search_model" /\ last.lookup = "in"
    /\ Cardinality(StoredTerms(last.text)) = 2
    /\ \E t, u \in Terms(last.text) :
          /\ TermIds(t, last.q.model) # {}
          /\ TermIds(u, last.q.model) # {}
          /\ TermIds(t, last.q.model) # TermIds(u, last.q.model)

\* C4 (as claimed): a text that normalizes to no token, as the empty text, a
\* text of stop words only, a text of tokens under the minimum length only,
\* makes search_model return the original query
C4_NoTokenReturnsOriginal ==
    (last.op = "search_model" /\ words_from_text(last.text, FALSE) = <<>> =>
        last.ret = Result("Query", last.q.model, last.q.ids))

\* C4 (amended): a text that normalizes for search to no token, which the
\* empty text and a text of tokens under the minimum length do, makes
\* search_model return the original query; any other text, a text of stop
\* words only among them (the stop words are dropped when indexing, not when
\* searching), makes it return a narrowed or an empty query, or fail
C4_NoSearchTokenReturnsOriginal ==
    (last.op = "search_model" =>
        (words_from_text(last.text, TRUE) = <<>>
            <=> last.ret = Result("Query", last.q.model, last.q.ids)))

\* a search of a filled store for a text of one short token
C4_Witness ==
    /\ last.op = "search_model"
    /\ last.text # <<>> /\ split_text(last.text) = <<>>
    /\ last.ret.kind = "Query"
    /\ \E p \in DOMAIN WordItem : p.model_type = last.q.model /\ p.object_id \in last.q.ids

\* C5 (as claimed): with a lookup other than 'in' and 'contains', a search
\* for a text that matches one stored Word, or more than one, ends in an
\* invalid-argument error
C5_UnknownLookupIsValueError ==
    (/\ last.op = "search_model"
       /\ last.lookup \notin {"in", "contains"}
       /\ StoredTerms(last.text) # {}
       => last.ret.kind = "ValueError")

----------------------------------------------------------------------------
(* Claims on tag clouds *)

\* the stored postings of the given types that carry the Word of id k
PostingsOf(k, models) ==
    BagFilter(WordItem, {p \in DOMAIN WordItem : p.word = k /\ p.model_type \in models})

\* C10 (as claimed): alltags(types) returns a mapping whose keys are the Words
\* with tag = true that have a posting of one of the types, each with the
\* number of those postings, whatever their counts
C10_AllTagsTalliesPostings ==
    last.op = "alltags" =>
        /\ last.ret.kind = "dict"
        /\ DOMAIN last.ret.tags
             = {w.id : w \in {x \in Word : /\ x.tag
                                           /\ PostingsOf(x.id, last.models) # EmptyBag}}
        /\ \A k \in DOMAIN last.ret.tags :
             last.ret.tags[k] = BagCardinality(PostingsOf(k, last.models))

----------------------------------------------------------------------------
(* Claims on structured fields *)

\* C13: a read of a structured-field attribute on an instance whose primary
\* key is not assigned fails with the structured-field error that names the
\* field; it builds no structure handle and leaves the instance, its cache
\* attribute for the field included, as it was
C13_ReadBeforeSaveFails ==
    [][(last'.op = "get" /\ instances[last'.instance].id = NoId) =>
         /\ last'.raised = [kind |-> "StructureFieldError", name |-> last'.name]
         /\ structures' = structures
         /\ instances' = instances]_vars

\* a failed read on an instance without primary key that is bound to a unit
\* of work and has a value in its cache attribute, while a handle exists
C13_Witness ==
    /\ last.op = "get"
    /\ last.raised.kind = "StructureFieldError"
    /\ instances[last.instance].session # None
    /\ instances[last.instance].cache[last.name] = Raw
    /\ structures # <<>>

\* the handles built for a field of an instance
Made(S, i, name) == {h \in DOMAIN S : S[h].instance = i /\ S[h].name = name}

\* C14: every read of a structured-field attribute on a saved instance
\* returns a handle, the only one ever built for that field of the instance;
\* when a handle was cached the read builds none, returns that handle with
\* its key and its buffered content as they were, and the handle is bound to
\* the instance's current unit of work after the read
C14_OneHandlePerField ==
    [][(last'.op = "get" /\ instances[last'.instance].saved) =>
         LET i == last'.instance
             name == last'.name
         IN /\ last'.raised = NoError
            /\ Made(structures', i, name) = {last'.ret.h}
            /\ structures'[last'.ret.h].session = instances[i].session
            /\ Made(structures, i, name) # {} =>
                 /\ Len(structures') = Len(structures)
                 /\ Made(structures, i, name) = {last'.ret.h}
                 /\ structures'[last'.ret.h].buffer = structures[last'.ret.h].buffer
                 /\ structures'[last'.ret.h].id = structures[last'.ret.h].id]_vars

\* a read on a saved instance whose cached handle held buffered content and
\* was bound to another unit of work than the instance
C14_Witness ==
    /\ last.op = "get"
    /\ instances[last.instance].saved
    /\ last.was.kind = "Structure"
    /\ last.from # instances[last.instance].session
    /\ structures[last.ret.h].buffer > 0
    /\ structures[last.ret.h].session = instances[last.instance].session

\* the coordinates of a handle: record type, primary key, field name
Coordinates(h) ==
    <<instances[structures[h].instance].model_type,
      instances[structures[h].instance].id, structures[h].name>>

\* C15 (as claimed): two handles built by first reads have the same key
\* exactly when their record type, primary key and field name are the same,
\* whatever the units of work the reads were made through
C15_KeyFromCoordinates ==
    \A h1, h2 \in DOMAIN structures :
        (Coordinates(h1) = Coordinates(h2)) <=> (structures[h1].id = structures[h2].id)

\* C15 (amended): two handles built by first reads through units of work of
\* one backend have the same key when their record type, primary key and
\* field name are the same; handles that differ in one of the three have
\* different keys, whatever the backends
C15_KeyFromCoordinatesAndBackend ==
    \A h1, h2 \in DOMAIN structures :
        /\ (/\ Coordinates(h1) = Coordinates(h2)
            /\ BackendOf(structures[h1].origin) = BackendOf(structures[h2].origin))
              => structures[h1].id = structures[h2].id
        /\ Coordinates(h1) # Coordinates(h2) => structures[h1].id # structures[h2].id

\* two handles of the same coordinates built through two units of work of
\* one backend, and a handle of the same instance for the other field
C15_Witness ==
    \E h1, h2, h3 \in DOMAIN structures :
        /\ h1 # h2
        /\ Coordinates(h1) = Coordinates(h2)
        /\ structures[h1].origin # structures[h2].origin
        /\ structures[h1].id = structures[h2].id
        /\ structures[h3].instance = structures[h1].instance
        /\ structures[h3].name # structures[h1].name

----------------------------------------------------------------------------
(* Claims on the test harness *)

\* C16: an invocation of a test case goes from pre-setup to the test body,
\* from the test body, passed or not, to post-teardown, and returns only from
\* post-teardown; when it returns no record type is registered and the
\* server holds no key under the test's prefix
C16_TeardownAroundEveryBody ==
    [][\A t \in TestNames :
         /\ tests'[t].pc # tests[t].pc =>
              /\ last'.test = t
              /\ \/ /\ tests[t].pc \in {"idle", "returned"}
                    /\ tests'[t].pc = "body" /\ last'.op = "pre_setup"
                 \/ /\ tests[t].pc = "body"
                    /\ tests'[t].pc = "post_teardown" /\ last'.op = "body"
                 \/ /\ tests[t].pc = "post_teardown"
                    /\ tests'[t].pc = "returned" /\ last'.op = "post_teardown"
         /\ (tests'[t].pc = "returned" /\ tests[t].pc # "returned") =>
              /\ registry' = {}
              /\ \A k \in keys' : ~Matches(tests'[t].prefix, k)]_vars

\* an invocation whose body failed has returned; its post-teardown found
\* keys under the prefix and a registered record type
C16_Witness ==
    /\ last.op = "post_teardown"
    /\ tests[last.test].pc = "returned"
    /\ tests[last.test].outcome = "fail"
    /\ last.had # {}
    /\ last.registered # {}

\* the literal the prefixes start with
Literal == <<"s", "t", "d", "n", "e", "t", "-", "t", "e", "s", "t", "-">>

\* C17: the prefixes of two runs are distinct and of the form
\* 'stdnet-test-<id>.'; a clear_all of a run (in pre-setup, in its deferred
\* callback, in post-teardown) removes every key under the run's prefix and
\* no key under the prefix of another run
C17_RunsIsolatedByPrefix ==
    [][(\/ last'.op \in {"post_teardown", "clear_all"}
        \/ last'.op = "pre_setup" /\ ~last'.async) =>
         LET t == last'.test
             A == tests'[t].prefix
         IN /\ \E uid \in UniqueIds : A = Literal \o uid \o <<".">>
            /\ \A k \in keys : Matches(A, k) => k \notin keys'
            /\ \A u \in TestNames \ {t} :
                  tests[u].pc # "idle" =>
                     /\ tests[u].prefix # A
                     /\ \A k \in keys : Matches(tests[u].prefix, k) => k \in keys']_vars

\* the post-teardown of one run removed a key while another run, in its
\* body, keeps the key of the same name under its own prefix
C17_Witness ==
    /\ last.op = "post_teardown"
    /\ \E u \in TestNames \ {last.test}, name \in KeyNames :
          /\ tests[u].pc = "body"
          /\ tests[u].prefix \o name \in keys
          /\ tests[last.test].prefix \o name \in last.had

----------------------------------------------------------------------------
(* Claims on the failure kinds *)

\* C18 (as claimed): a handler for FieldError catches StructureFieldError, as
\* it catches FieldValueError; a handler for SessionNotAvailable catches
\* ModelNotRegistered; a handler for QuerySetError catches ObjectNotFound; a
\* handler for the root StdNetException catches every kind
C18_FailureHierarchy ==
    last.op = "handle" =>
        /\ (last.raised \in {"StructureFieldError", "FieldValueError"}
              /\ last.handler = "FieldError") => last.caught
        /\ (last.raised = "ModelNotRegistered"
              /\ last.handler = "SessionNotAvailable") => last.caught
        /\ (last.raised = "ObjectNotFound"
              /\ last.handler = "QuerySetError") => last.caught
        /\ last.handler = "StdNetException" => last.caught

----------------------------------------------------------------------------
(* Claims on searching without a match *)

\* C20: a search for a text that has terms, none of them the id of a stored
\* Word, returns an empty query, with any lookup: not the original query and
\* no error
C20_NoMatchIsEmptyQuery ==
    (last.op = "search_model" /\ Terms(last.text) # {} /\ StoredTerms(last.text) = {})
        => last.ret = Result("EmptyQuery", last.q.model, {})

\* a search for a stop word over a store that holds postings of the query's
\* records
C20_Witness ==
    /\ last.op = "search_model"
    /\ last.text = <<"t", "h", "e">>
    /\ last.ret.kind = "EmptyQuery"
    /\ \E p \in DOMAIN WordItem :
          p.model_type = last.q.model /\ p.object_id \in last.q.ids

----------------------------------------------------------------------------
(* Claims on tokenizing *)

\* the positions of a text where a token starts: a character that is neither
\* a splitter nor whitespace, at the start or after one that is
TokenStarts(text, seps) ==
    {i \in 1..Len(text) : text[i] \notin seps /\ (i = 1 \/ text[i - 1] \in seps)}

\* the position where the token that starts at i ends
TokenEnd(text, seps, i) ==
    CHOOSE j \in i..Len(text) :
        /\ \A k \in i..j : text[k] \notin seps
        /\ j = Len(text) \/ text[j + 1] \in seps

\* C19: split_text yields, from left to right, the lower-cased tokens of the
\* text, a token being a maximal run of characters that are neither
\* splitters nor whitespace, and keeps the tokens of at least the minimum
\* word length; with no splitters only whitespace ends a token
C19_SplitTextTokens ==
    last.op = "split_text" =>
        LET text == last.text
            seps == last.splitters \cup Whitespace
            kept == {i \in TokenStarts(text, seps) :
                        TokenEnd(text, seps, i) - i + 1 >= last.min_word_length}
            nth(n) == CHOOSE i \in kept : Cardinality({j \in kept : j < i}) = n - 1
            token(i) == Join([j \in 1..(TokenEnd(text, seps, i) - i + 1) |->
                                LowerChar(text[i + j - 1])])
        IN last.ret = [n \in 1..Cardinality(kept) |-> token(nth(n))]

\* the documented example: splitters '_-' turn 'bla_pippo_ciao-moon' into
\* bla, pippo, ciao, moon
C19_Witness ==
    /\ last.op = "split_text"
    /\ last.splitters = {"_", "-"}
    /\ last.text = ExampleText
    /\ last.ret = <<"bla", "pippo", "ciao", "moon">>

----------------------------------------------------------------------------
(* Integrity of the index: get_or_create, add_item, add_tag, remove_item   *)
(* and commits, without flush                                               *)

\* one word and its count
IntegrityWordCounts == { << <<"KT", 1>> >> }

\* "Cats"
IntegrityTexts == { <<"C", "a", "t", "s">> }

NextIntegrity ==
    \/ GetOrCreate({"KT"}, {None, "s2"})
    \/ AddItem(IndexItems, IntegrityWordCounts, {"s1"})
    \/ AddTag({i \in IndexItems : i.session = "s2"}, IntegrityTexts)
    \/ RemoveItem(IndexItems \cup {Class("TypeX")}, {Absent}, {"s1", None})
    \/ Commit(Sessions)

SpecIntegrity == Init /\ [][NextIntegrity]_vars

----------------------------------------------------------------------------
(* Claims on the integrity of the index *)

\* C21: without flush, every durable posting references a Word that is
\* durable in the store, also when the item's own unit of work is another
\* one than the unit of work add_item was given
C21_PostingsReferenceStoredWords ==
    \A p \in DOMAIN WordItem : WordGet(Word, p.word) # {}

----------------------------------------------------------------------------
(* Claims on the clearing chained to an asynchronous script flush *)

\* C23: the clear_all that pre-setup chains to an asynchronous script flush
\* never runs after the test body has written a key under the test's prefix
C23_DeferredClearBeforeBody ==
    [][last'.op = "clear_all" =>
         \A k \in keys : ~Matches(tests[last'.test].prefix, k)]_vars

----------------------------------------------------------------------------
(* Concurrent callers: two calls of get_or_create, step by step, and commits *)

NextRace ==
    \/ Lookup(Callers, WordIds, {None, "s1"})
    \/ CreateOrUpdate(Callers)
    \/ Commit({"s1"})

SpecRace == Init /\ [][NextRace]_vars

----------------------------------------------------------------------------
(* Claims on concurrent callers *)

\* C22: when two concurrent calls of get_or_create for the same word, absent
\* at the start, have returned and what they staged is committed, the store
\* holds exactly one Word with that id, and its tag flag is true if either
\* call asked for tag = true
C22_ConcurrentGetOrCreateConverges ==
    (/\ \A c \in Callers : calls[c].pc = "done"
     /\ calls["c1"].word = calls["c2"].word
     /\ StagedTotal(pending) = 0) =>
        LET stored == WordGet(Word, calls["c1"].word)
        IN /\ Cardinality(stored) = 1
           /\ (\E c \in Callers : calls[c].tag) => \A w \in stored : w.tag

====
